---- MODULE Spec2Model ----
(***************************************************************************)
(* BizTime: an Express application over two PostgreSQL tables.  Every      *)
(* request passes the dbClient middleware, which checks a connection out   *)
(* of the pool, opens a transaction on it, and commits or rolls back when  *)
(* the response emits "finish".  The data-access functions of db.js run    *)
(* their statements on the connection they are handed.                     *)
(*                                                                         *)
(* Three specifications share the variables:                               *)
(*   Spec         HTTP requests through app.js, dbClient and the routers,  *)
(*                on a pool whose connections exist;                       *)
(*   ApiSpec      a caller of db.js that drives one client directly, the   *)
(*                way tests/db.test.js does;                               *)
(*   ConnectSpec  requests on a pool that creates its connections when     *)
(*                asked, with the "connect" handler of db.js.              *)
(***************************************************************************)
EXTENDS Integers, Sequences, FiniteSets, TLC

\* ------------------------------------------------------------ bounds
NumReqs == 2        \* HTTP requests of a run
PoolMax == 2        \* connections the pool may hold
MaxId == 3          \* last value the invoices id sequence hands out
MaxCalls == 3       \* calls of the direct caller

Reqs == 1 .. NumReqs
Conns == 1 .. PoolMax

\* JavaScript null / undefined in a date or status position
NULL == -1
NoClient == 0

\* ------------------------------------------------------------ values
TicksPerDay == 2
Now == 5

\* utils/dateTime.js: new Date(date).toISOString().split("T")[0], the
\* calendar day an instant falls on, written as the instant of its midnight
getCalendarDate(date) == (date \div TicksPerDay) * TicksPerDay

\* JavaScript truthiness of a value that is null (undefined) or not
Truthy(v) == v # NULL

Columns == {"comp_code", "amt", "paid", "add_date", "paid_date"}

\* The text node-postgres hands over for a bigint such as COUNT(*): its
\* decimal digits, first the most significant.
DigitChars == <<"0", "1", "2", "3", "4", "5", "6", "7", "8", "9">>
RECURSIVE Decimal(_)
Decimal(n) ==
    IF n < 10 THEN <<DigitChars[n + 1]>>
    ELSE Decimal(n \div 10) \o <<DigitChars[(n % 10) + 1]>>

\* JavaScript parseInt(text, radix): the number the leading digits below the
\* radix spell, NaN (NULL here) when the text starts with none.
DigitValue(ch) ==
    IF \E d \in 0 .. 9 : DigitChars[d + 1] = ch
    THEN CHOOSE d \in 0 .. 9 : DigitChars[d + 1] = ch
    ELSE NULL
RECURSIVE ParseDigits(_, _, _)
ParseDigits(text, radix, acc) ==
    IF text = <<>> \/ DigitValue(Head(text)) = NULL \/ DigitValue(Head(text)) >= radix
    THEN acc
    ELSE ParseDigits(Tail(text), radix,
                     (IF acc = NULL THEN 0 ELSE acc * radix) + DigitValue(Head(text)))
parseInt(text, radix) == ParseDigits(text, radix, NULL)

InvoiceRow(id, comp_code, amt, paid, add_date, paid_date) ==
    [id |-> id, comp_code |-> comp_code, amt |-> amt, paid |-> paid,
     add_date |-> add_date, paid_date |-> paid_date]

CompanyRow(code, name, description) ==
    [code |-> code, name |-> name, description |-> description]

Ids(rows) == {x.id : x \in rows}

\* ------------------------------------------------------------ state
VARIABLES
    pool,       \* pool[c]: the connection c, its checkout state and transaction
    companies,  \* committed rows of table companies
    invoices,   \* committed rows of table invoices
    nextId,     \* the invoices id sequence
    req,        \* req[r]: an HTTP request, its position and its response
    sent,       \* sent[r]: what request r issued on its connection, in order
    api,        \* the direct caller of db.js
    apiSent,    \* what the direct caller issued on its client, in order
    tz          \* the session time zones and the "connect" handlers under way

vars == <<pool, companies, invoices, nextId, req, sent, api, apiSent, tz>>

\* ------------------------------------------------------------ the backend
\* A connection: in the pool ("idle") or checked out ("out"); its transaction
\* ("none", "open", or "aborted" after a failed statement); the invoices its
\* open transaction wrote (ins) and the ids it deleted (del), the companies it
\* wrote (cins) and the codes it deleted (cdel), none of them committed yet.
FreshConn ==
    [state |-> "idle", txn |-> "none", ins |-> {}, del |-> {},
     cins |-> {}, cdel |-> {}]

Codes(rows) == {x.code : x \in rows}

\* The invoices a statement on connection c sees: the committed rows, overlaid
\* with what the connection's own open transaction wrote.
View(c) ==
    IF pool[c].txn = "none" THEN invoices
    ELSE {x \in invoices : x.id \notin pool[c].del \cup Ids(pool[c].ins)}
            \cup pool[c].ins

\* The companies a statement on connection c sees.
CView(c) ==
    IF pool[c].txn = "none" THEN companies
    ELSE {x \in companies : x.code \notin pool[c].cdel \cup Codes(pool[c].cins)}
            \cup pool[c].cins

\* A committed row another connection's unfinished transaction wrote: an
\* UPDATE or DELETE of it waits until that transaction ends.
RowLocked(c, id) ==
    /\ id \in Ids(invoices)
    /\ \E d \in Conns \ {c} :
          /\ pool[d].txn # "none"
          /\ id \in pool[d].del \cup Ids(pool[d].ins)

CRowLocked(c, code) ==
    /\ code \in Codes(companies)
    /\ \E d \in Conns \ {c} :
          /\ pool[d].txn # "none"
          /\ code \in pool[d].cdel \cup Codes(pool[d].cins)

\* Statements, as the data-access functions build them.
Stmt(op, id, code, set, row) ==
    [op |-> op, id |-> id, code |-> code, set |-> set, row |-> row]
NoRow == InvoiceRow(0, "", 0, FALSE, NULL, NULL)
Begin == Stmt("BEGIN", 0, "", <<>>, NoRow)
Commit == Stmt("COMMIT", 0, "", <<>>, NoRow)
Rollback == Stmt("ROLLBACK", 0, "", <<>>, NoRow)

\* The backend rejects the statement: it broke down (up = FALSE), the
\* connection's transaction is aborted, the statement is malformed (an UPDATE
\* with no SET clause or naming something that is no column), or it inserts a
\* company under a code that is taken.
Rejected(c, q, up) ==
    \/ ~up
    \/ pool[c].txn = "aborted" /\ q.op \notin {"COMMIT", "ROLLBACK"}
    \/ q.op = "UPDATE" /\ (DOMAIN q.set = {} \/ ~(DOMAIN q.set \subseteq Columns))
    \/ q.op = "INSERT_COMPANY" /\ q.code \in Codes(CView(c))

\* What the connection and the tables become through a write of connection c
\* that puts the invoices up and the companies cup, and removes the invoices
\* with ids rm and the companies with codes crm.
Written(c, up, rm, cup, crm) ==
    IF pool[c].txn = "none"
    THEN [cn |-> pool[c],
          inv |-> {x \in invoices : x.id \notin rm \cup Ids(up)} \cup up,
          comp |-> {x \in companies : x.code \notin crm \cup Codes(cup)} \cup cup]
    ELSE [cn |-> [pool[c] EXCEPT
                    !.ins = {x \in @ : x.id \notin rm \cup Ids(up)} \cup up,
                    !.del = @ \cup rm,
                    !.cins = {x \in @ : x.code \notin crm \cup Codes(cup)} \cup cup,
                    !.cdel = @ \cup crm],
          inv |-> invoices,
          comp |-> companies]

Result(ok, rows, cn, inv, comp, nid) ==
    [ok |-> ok, rows |-> rows, cn |-> cn, inv |-> inv, comp |-> comp, nid |-> nid]

Ended(cn) ==
    [cn EXCEPT !.txn = "none", !.ins = {}, !.del = {}, !.cins = {}, !.cdel = {}]

\* client.query(q) on connection c: whether it succeeded, the rows it
\* returned, and the connection, the tables and the id sequence after it.
Query(c, q, up) ==
    LET cn == pool[c]
        hit == {x \in View(c) : x.id = q.id}
        chit == {x \in CView(c) : x.code = q.code}
        Same(rows) == Result(TRUE, rows, cn, invoices, companies, nextId)
        Wrote(rows, w) == Result(TRUE, rows, w.cn, w.inv, w.comp, nextId)
    IN
    IF Rejected(c, q, up)
    THEN Result(FALSE, {},
                IF cn.txn = "open" /\ q.op \notin {"COMMIT", "ROLLBACK"}
                THEN [cn EXCEPT !.txn = "aborted"] ELSE cn,
                invoices, companies, nextId)
    ELSE CASE q.op = "BEGIN" ->
                Result(TRUE, {},
                       IF cn.txn = "none" THEN [cn EXCEPT !.txn = "open"] ELSE cn,
                       invoices, companies, nextId)
           [] q.op = "COMMIT" ->
                Result(TRUE, {}, Ended(cn),
                       IF cn.txn = "open" THEN View(c) ELSE invoices,
                       IF cn.txn = "open" THEN CView(c) ELSE companies, nextId)
           [] q.op = "ROLLBACK" ->
                Result(TRUE, {}, Ended(cn), invoices, companies, nextId)
           [] q.op = "SELECT" -> Same(hit)
           [] q.op = "SELECT_ALL" -> Same(View(c))
           [] q.op = "SELECT_UNPAID" -> Same({x \in View(c) : x.paid = FALSE})
           [] q.op = "SELECT_PAID" -> Same({x \in View(c) : x.paid = TRUE})
           [] q.op = "SELECT_COMPANIES" -> Same(CView(c))
           [] q.op = "SELECT_COMPANY" -> Same(chit)
           [] q.op = "SELECT_COMPANY_INVOICES" ->
                Same({x \in View(c) : x.comp_code = q.code})
           [] q.op = "COUNT" ->
                Same({[count |-> Decimal(Cardinality(View(c)))]})
           [] q.op = "INSERT" ->
                LET new == [q.row EXCEPT !.id = nextId]
                    w == Written(c, {new}, {}, {}, {})
                IN Result(TRUE, {new}, w.cn, w.inv, w.comp, nextId + 1)
           [] q.op = "UPDATE" ->
                LET new == {[k \in DOMAIN x |->
                               IF k \in DOMAIN q.set THEN q.set[k] ELSE x[k]]
                            : x \in hit}
                IN Wrote(new, Written(c, new, {}, {}, {}))
           [] q.op = "DELETE" -> Wrote(hit, Written(c, {}, Ids(hit), {}, {}))
           [] q.op = "INSERT_COMPANY" ->
                LET new == CompanyRow(q.code, q.set.name, q.set.description)
                IN Wrote({new}, Written(c, {}, {}, {new}, {}))
           [] q.op = "UPDATE_COMPANY" ->
                LET new == {CompanyRow(x.code, q.set.name, q.set.description)
                            : x \in chit}
                IN Wrote(new, Written(c, {}, {}, new, {}))
           [] q.op = "DELETE_COMPANY" ->
                Wrote(chit, Written(c, {}, {}, {}, Codes(chit)))

\* ------------------------------------------------------------ db.js
\* A connection a caller checked out taken for one that is in the pool
IdleOrCheckedOut(c) == pool[c].state \in {"idle", "out"}

\* pool.connect() hands out a connection that is in the pool.
Idle(c) == pool[c].state = "idle"

\* An error: its message and its status (NULL when it carries none).
Err(message, status) == [message |-> message, status |-> status]
NoErr == Err("", NULL)
BackendErr == Err("backend error", NULL)

\* One statement as a caller issued it: on its own client or on a connection
\* pool.query picked, whether the backend accepted it, and whether it returned
\* a row.
Sent(q, ok, via, found) ==
    [stmt |-> q.op, cols |-> DOMAIN q.set, ok |-> ok, via |-> via,
     found |-> found]
Released ==
    [stmt |-> "release", cols |-> {}, ok |-> TRUE, via |-> "client",
     found |-> FALSE]

\* The outcome of a data-access call: whether it threw and what, the rows it
\* returned (res.rows, of which the keyed functions hand back rows[0]), the
\* number it returned when it returns one, the statements it sent, and the
\* connection it ran them on with the backend's answer.
Threw(err) ==
    [threw |-> TRUE, err |-> err, rows |-> {}, ret |-> NULL, sent |-> <<>>,
     on |-> NoClient,
     res |-> Result(FALSE, {}, FreshConn, invoices, companies, nextId)]

\* try { res = await client.query(q) } catch (err) { throw err } with the
\* error dropped: the call returns no row
RanSwallowsError(c, q, up, via) ==
    LET res == Query(c, q, up)
    IN [threw |-> FALSE, err |-> NoErr, rows |-> res.rows, ret |-> NULL,
        sent |-> <<Sent(q, res.ok, via, res.rows # {})>>, on |-> c, res |-> res]

Ran(c, q, up, via) ==
    LET res == Query(c, q, up)
    IN [threw |-> ~res.ok, err |-> IF res.ok THEN NoErr ELSE BackendErr,
        rows |-> res.rows, ret |-> NULL,
        sent |-> <<Sent(q, res.ok, via, res.rows # {})>>, on |-> c,
        res |-> res]

\* A read: client.query on the caller's client, or pool.query on the
\* connection p the pool picks when the caller passed no client.
Read(q, client, p, up) ==
    IF client = NoClient THEN Ran(p, q, up, "pool") ELSE Ran(client, q, up, "client")

\* An argument the caller left out (undefined) takes its default.
Arg(args, k, default) == IF k \in DOMAIN args THEN args[k] ELSE default

\* commitTransactions sending the statement of rollbackTransactions
commitTransactionsSendsRollback(client, up) == Ran(client, Rollback, up, "client")

commitTransactions(client, up) == Ran(client, Commit, up, "client")

\* rollbackTransactions sending the statement of commitTransactions
rollbackTransactionsSendsCommit(client, up) == Ran(client, Commit, up, "client")

rollbackTransactions(client, up) == Ran(client, Rollback, up, "client")

getAllCompanies(client, p, up) ==
    Read(Stmt("SELECT_COMPANIES", 0, "", <<>>, NoRow), client, p, up)

getCompany(code, client, p, up) ==
    IF code = "" THEN Threw(Err("Company code is required.", NULL))
    ELSE Read(Stmt("SELECT_COMPANY", 0, code, <<>>, NoRow), client, p, up)

createCompany(args, client, up) ==
    IF Arg(args, "code", "") = "" \/ Arg(args, "name", "") = ""
    THEN Threw(Err("Company code and name are required.", NULL))
    ELSE IF client = NoClient THEN Threw(Err("Client is required.", NULL))
    ELSE Ran(client,
             Stmt("INSERT_COMPANY", 0, args.code,
                  [name |-> args.name,
                   description |-> Arg(args, "description", "")],
                  NoRow),
             up, "client")

updateCompany(code, args, client, up) ==
    IF client = NoClient THEN Threw(Err("Client is required.", NULL))
    ELSE Ran(client,
             Stmt("UPDATE_COMPANY", 0, code,
                  [name |-> Arg(args, "name", ""),
                   description |-> Arg(args, "description", "")],
                  NoRow),
             up, "client")

\* deleteCompany returning the row without deleting it
deleteCompanyOnlySelects(code, client, up) ==
    IF client = NoClient THEN Threw(Err("Client is required.", NULL))
    ELSE Ran(client, Stmt("SELECT_COMPANY", 0, code, <<>>, NoRow), up, "client")

deleteCompany(code, client, up) ==
    IF client = NoClient THEN Threw(Err("Client is required.", NULL))
    ELSE Ran(client, Stmt("DELETE_COMPANY", 0, code, <<>>, NoRow), up, "client")

getAllInvoices(client, p, up) ==
    Read(Stmt("SELECT_ALL", 0, "", <<>>, NoRow), client, p, up)

\* getInvoice reading through pool.query although it was handed a client
getInvoiceIgnoresClient(id, client, p, up) ==
    IF id = 0 THEN Threw(Err("Invoice ID is required.", NULL))
    ELSE IF client = NoClient
         THEN Ran(p, Stmt("SELECT", id, "", <<>>, NoRow), up, "pool")
         ELSE Ran(CHOOSE d \in Conns : d # client,
                  Stmt("SELECT", id, "", <<>>, NoRow), up, "pool")

getInvoice(id, client, p, up) ==
    IF id = 0 THEN Threw(Err("Invoice ID is required.", NULL))
    ELSE Read(Stmt("SELECT", id, "", <<>>, NoRow), client, p, up)

\* createInvoice with paid = true for its default
createInvoicePaidByDefault(args, client, up) ==
    LET paid == Arg(args, "paid", TRUE)
        add_date == Arg(args, "add_date", getCalendarDate(Now))
        paid_date == Arg(args, "paid_date", NULL)
    IN IF client = NoClient THEN Threw(Err("Client is required.", NULL))
       ELSE Ran(client,
                Stmt("INSERT", 0, "", <<>>,
                     InvoiceRow(0, args.comp_code, args.amt, paid,
                                IF Truthy(add_date) THEN getCalendarDate(add_date)
                                ELSE add_date,
                                IF Truthy(paid_date) THEN getCalendarDate(paid_date)
                                ELSE paid_date)),
                up, "client")

createInvoice(args, client, up) ==
    LET paid == Arg(args, "paid", FALSE)
        add_date == Arg(args, "add_date", getCalendarDate(Now))
        paid_date == Arg(args, "paid_date", NULL)
    IN IF client = NoClient THEN Threw(Err("Client is required.", NULL))
       ELSE Ran(client,
                Stmt("INSERT", 0, "", <<>>,
                     InvoiceRow(0, args.comp_code, args.amt, paid,
                                IF Truthy(add_date) THEN getCalendarDate(add_date)
                                ELSE add_date,
                                IF Truthy(paid_date) THEN getCalendarDate(paid_date)
                                ELSE paid_date)),
                up, "client")

\* updateInvoice adding "paid_date = now" to the SET clause it builds
updateInvoiceAlsoSetsPaidDate(id, fields, client, up) ==
    LET query == Stmt("UPDATE", id, "",
                      [k \in DOMAIN fields \cup {"paid_date"} |->
                         IF k \in DOMAIN fields THEN fields[k] ELSE Now],
                      NoRow)
    IN IF client = NoClient THEN Threw(Err("Client is required.", NULL))
       ELSE Ran(client, query, up, "client")

\* The SET clause holds one "field = $n" per key of fields, however many.
updateInvoice(id, fields, client, up) ==
    LET query == Stmt("UPDATE", id, "", fields, NoRow)
    IN IF client = NoClient THEN Threw(Err("Client is required.", NULL))
       ELSE Ran(client, query, up, "client")

updateInvoiceAmt(id, amt, client, up) ==
    IF client = NoClient THEN Threw(Err("Client is required.", NULL))
    ELSE Ran(client, Stmt("UPDATE", id, "", [amt |-> amt], NoRow), up, "client")

\* deleteInvoice without its client check, falling back on pool.query as the
\* reads do
deleteInvoiceWithoutClientCheck(id, client, up) ==
    IF client = NoClient
    THEN Ran(CHOOSE c \in Conns : Idle(c) \/ \A d \in Conns : ~Idle(d),
             Stmt("DELETE", id, "", <<>>, NoRow), up, "pool")
    ELSE Ran(client, Stmt("DELETE", id, "", <<>>, NoRow), up, "client")

deleteInvoice(id, client, up) ==
    IF client = NoClient THEN Threw(Err("Client is required.", NULL))
    ELSE Ran(client, Stmt("DELETE", id, "", <<>>, NoRow), up, "client")

getAllCompanyInvoices(code, client, p, up) ==
    Read(Stmt("SELECT_COMPANY_INVOICES", 0, code, <<>>, NoRow), client, p, up)

\* getInvoiceCount returning res.rows.length for the parsed count
getInvoiceCountOfRows(client, p, up) ==
    LET call == Read(Stmt("COUNT", 0, "", <<>>, NoRow), client, p, up)
    IN IF call.threw THEN call
       ELSE [call EXCEPT !.ret = Cardinality(call.rows)]

\* getUnpaidInvoices selecting without its WHERE clause
getUnpaidInvoicesSelectsAll(client, p, up) ==
    Read(Stmt("SELECT_ALL", 0, "", <<>>, NoRow), client, p, up)

getUnpaidInvoices(client, p, up) ==
    Read(Stmt("SELECT_UNPAID", 0, "", <<>>, NoRow), client, p, up)

getPaidInvoices(client, p, up) ==
    Read(Stmt("SELECT_PAID", 0, "", <<>>, NoRow), client, p, up)

\* parseInt(res.rows[0].count, 10)
getInvoiceCount(client, p, up) ==
    LET call == Read(Stmt("COUNT", 0, "", <<>>, NoRow), client, p, up)
    IN IF call.threw THEN call
       ELSE [call EXCEPT !.ret =
                parseInt((CHOOSE x \in call.rows : TRUE).count, 10)]

\* updateInvoicePaidStatus with `if (paid && !paidDate) paidDate = new Date()`
updateInvoicePaidStatusStampsNow(id, paid, paidDate, client, up) ==
    LET date == IF paid /\ ~Truthy(paidDate) THEN Now ELSE paidDate
    IN IF client = NoClient THEN Threw(Err("Client is required.", NULL))
       ELSE Ran(client,
                Stmt("UPDATE", id, "",
                     [paid |-> paid,
                      paid_date |-> IF Truthy(date) THEN getCalendarDate(date)
                                    ELSE date],
                     NoRow),
                up, "client")

updateInvoicePaidStatus(id, paid, paidDate, client, up) ==
    IF client = NoClient THEN Threw(Err("Client is required.", NULL))
    ELSE Ran(client,
             Stmt("UPDATE", id, "",
                  [paid |-> paid,
                   paid_date |-> IF Truthy(paidDate) THEN getCalendarDate(paidDate)
                                 ELSE paidDate],
                  NoRow),
             up, "client")

\* ------------------------------------------------------------ the pool
CheckedOut(cn) == [cn EXCEPT !.state = "out"]
\* client.release() puts it back.
release(cn) == [cn EXCEPT !.state = "idle"]
\* The connection a read runs on when it got no client: pool.query waits for
\* one that is in the pool.  A read that got a client asks the pool nothing.
PoolPick(client, p) ==
    IF client = NoClient THEN p # NoClient /\ Idle(p) ELSE p = NoClient
Picks == Conns \cup {NoClient}

\* ------------------------------------------------------------ app.js
Routes ==
    {"GET /invoices", "GET /invoices/:id", "POST /invoices", "PUT /invoices/:id",
     "DELETE /invoices/:id", "GET /companies", "GET /companies/:code",
     "POST /companies", "PUT /companies/:code", "DELETE /companies/:code",
     "other"}

\* What the requests of a run may carry.
IdArgs == 1 .. MaxId
CodeArgs == {"c1", "c9"}
FieldArgs == {<<>>, [amt |-> 200], [paid |-> TRUE], [total |-> 200]}
CompanyArgs ==
    {[code |-> "c9", name |-> "Company9", description |-> "Description9"],
     [description |-> "Description9"]}

Body(shape, message, status) ==
    [shape |-> shape, message |-> message, status |-> status]

\* A request before the application saw it; a response's statusCode is 200
\* until something sets it.
NewReq ==
    [pc |-> "new", route |-> "", conn |-> NoClient, dbClient |-> NoClient,
     listener |-> FALSE, statusCode |-> 200, body |-> Body("", "", 0),
     aborted |-> FALSE, handled |-> FALSE, err |-> NoErr, code |-> ""]

\* res.status(status).json(body): the response is written and ended.
Respond(rq, status, body) ==
    [rq EXCEPT !.pc = "responded", !.statusCode = status, !.body = body]

\* The generic error handler: { error: { message, status } } under
\* err.status || 500.
errorHandler(rq, err) ==
    LET status == IF Truthy(err.status) THEN err.status ELSE 500
    IN [Respond(rq, status, Body("error", err.message, status)) EXCEPT !.err = err]

\* ------------------------------------------------------------ middleware/dbClient.js
\* The listener's test taking the client errors (4xx) for successes
SuccessBelow500(statusCode) == statusCode < 500

\* The test of the "finish" listener that chooses COMMIT.
Success(statusCode) == statusCode < 400

\* The catch calling next() for next(err): the routers run
dbClientCatchCallsNext(rq, err) == [rq EXCEPT !.pc = "route"]

\* catch (err) { next(err) }: Express skips the routers and runs the error
\* handler.
dbClientCatch(rq, err) == errorHandler(rq, err)

\* The listener's body: the terminal statement, then client.release() unless
\* the statement threw.
finalize(statusCode, client, up) ==
    IF Success(statusCode) THEN commitTransactions(client, up)
    ELSE rollbackTransactions(client, up)

\* The state after a data-access call of request r that leaves the request as rq.
Effect(r, call, rq) ==
    /\ pool' = IF call.on = NoClient THEN pool
               ELSE [pool EXCEPT ![call.on] = call.res.cn]
    /\ invoices' = call.res.inv
    /\ companies' = call.res.comp
    /\ nextId' = call.res.nid
    /\ sent' = [sent EXCEPT ![r] = @ \o call.sent]
    /\ req' = [req EXCEPT ![r] = rq]
    /\ UNCHANGED <<api, apiSent, tz>>

\* A request reaches the application; express.json and morgan pass it on.
Arrive(r) ==
    /\ req[r].pc = "new"
    /\ \E rt \in Routes : req' = [req EXCEPT ![r].pc = "connect", ![r].route = rt]
    /\ UNCHANGED <<pool, companies, invoices, nextId, sent, api, apiSent, tz>>

\* beginTransactions, first await: pool.connect() resolves with a connection
\* of the pool, or rejects.
PoolConnect(r) ==
    /\ req[r].pc = "connect"
    /\ \/ \E c \in Conns :
            /\ Idle(c)
            /\ pool' = [pool EXCEPT ![c] = CheckedOut(@)]
            /\ req' = [req EXCEPT ![r].pc = "begin", ![r].conn = c]
       \/ /\ req' = [req EXCEPT ![r] = dbClientCatch(@, BackendErr)]
          /\ UNCHANGED pool
    /\ UNCHANGED <<companies, invoices, nextId, sent, api, apiSent, tz>>

\* beginTransactions, second await: BEGIN on the connection.  When it
\* resolves, dbClient attaches the client to the request, registers the
\* "finish" listener and calls next(); when it rejects, the catch runs.
BeginTransaction(r) ==
    /\ req[r].pc = "begin"
    /\ \E up \in BOOLEAN :
          LET call == Ran(req[r].conn, Begin, up, "client")
          IN Effect(r, call,
                    IF call.threw THEN dbClientCatch(req[r], call.err)
                    ELSE [req[r] EXCEPT !.pc = "route", !.dbClient = req[r].conn,
                                        !.listener = TRUE])

\* The client closes the connection before the response is written.
Abort(r) ==
    /\ req[r].pc \in {"connect", "begin", "route", "route2"}
    /\ ~req[r].aborted
    /\ req' = [req EXCEPT ![r].aborted = TRUE]
    /\ UNCHANGED <<pool, companies, invoices, nextId, sent, api, apiSent, tz>>

\* The response emits "finish" once it is handed to the network, which an
\* aborted request's response never is.  The listener, when dbClient
\* registered one, runs the terminal statement and releases the client.
OnFinish(r) ==
    /\ req[r].pc = "responded"
    /\ ~req[r].aborted
    /\ IF req[r].listener
       THEN \E up \in BOOLEAN :
               LET call == finalize(req[r].statusCode, req[r].conn, up)
                   c == call.on
               IN /\ pool' = [pool EXCEPT ![c] =
                                IF call.threw THEN call.res.cn
                                ELSE release(call.res.cn)]
                  /\ invoices' = call.res.inv
                  /\ companies' = call.res.comp
                  /\ sent' = [sent EXCEPT ![r] =
                                @ \o call.sent
                                  \o (IF call.threw THEN <<>> ELSE <<Released>>)]
       ELSE UNCHANGED <<pool, invoices, companies, sent>>
    /\ req' = [req EXCEPT ![r].pc = "done"]
    /\ UNCHANGED <<nextId, api, apiSent, tz>>

\* ------------------------------------------------------------ routes/invoices.js
\* The request as its route handler finds it.
\* A handler that also runs once more after the response was finalized
RoutedOrFinished(r, route) ==
    req[r].pc \in {"route", "done"} /\ req[r].route = route

Routed(r, route) == req[r].pc = "route" /\ req[r].route = route
InHandler(r) == [req[r] EXCEPT !.handled = TRUE]

\* The handler without its `if (!invoice) throw` test: the missing row is
\* answered like a row
ReplyIgnoresMissing(rq, call, status, shape, missing) ==
    IF call.threw THEN errorHandler(rq, call.err)
    ELSE Respond(rq, status, Body(shape, "", 0))

\* return res.json(...) under the status given, or next(err) when the call
\* threw, or next(ExpressError(missing, 404)) when it returned no row.
Reply(rq, call, status, shape, missing) ==
    IF call.threw THEN errorHandler(rq, call.err)
    ELSE IF missing # "" /\ call.rows = {}
         THEN errorHandler(rq, Err(missing, 404))
         ELSE Respond(rq, status, Body(shape, "", 0))

\* GET /invoices
InvoicesGetAll(r) ==
    /\ Routed(r, "GET /invoices")
    /\ \E p \in Picks, up \in BOOLEAN :
          /\ PoolPick(req[r].dbClient, p)
          /\ LET call == getAllInvoices(req[r].dbClient, p, up)
             IN Effect(r, call, Reply(InHandler(r), call, 200, "invoices", ""))

\* GET /invoices/:id
InvoicesGetOne(r) ==
    /\ Routed(r, "GET /invoices/:id")
    /\ \E id \in IdArgs, p \in Picks, up \in BOOLEAN :
          /\ PoolPick(req[r].dbClient, p)
          /\ LET call == getInvoice(id, req[r].dbClient, p, up)
             IN Effect(r, call,
                       Reply(InHandler(r), call, 200, "invoice", "Invoice not found"))

\* POST /invoices
InvoicesPost(r) ==
    /\ Routed(r, "POST /invoices")
    /\ nextId <= MaxId
    /\ \E comp_code \in Codes(companies), up \in BOOLEAN :
          LET call == createInvoice([comp_code |-> comp_code, amt |-> 500],
                                    req[r].dbClient, up)
          IN Effect(r, call, Reply(InHandler(r), call, 201, "invoice", ""))

\* PUT /invoices/:id
InvoicesPut(r) ==
    /\ Routed(r, "PUT /invoices/:id")
    /\ \E id \in IdArgs, fields \in FieldArgs, up \in BOOLEAN :
          LET call == IF DOMAIN fields = {}
                      THEN Threw(Err("No fields to update provided", 400))
                      ELSE updateInvoice(id, fields, req[r].dbClient, up)
          IN /\ DOMAIN fields # {} => ~RowLocked(req[r].dbClient, id)
             /\ Effect(r, call,
                       Reply(InHandler(r), call, 200, "invoice", "Invoice not found"))

\* DELETE /invoices/:id
InvoicesDelete(r) ==
    /\ Routed(r, "DELETE /invoices/:id")
    /\ \E id \in IdArgs, up \in BOOLEAN :
          LET call == deleteInvoice(id, req[r].dbClient, up)
          IN /\ ~RowLocked(req[r].dbClient, id)
             /\ Effect(r, call,
                       Reply(InHandler(r), call, 200, "deleted", "Invoice not found"))

\* ------------------------------------------------------------ routes/companies.js
\* The handlers pass no client: the reads go through pool.query, which needs
\* a connection p of the pool; the writes reach no statement.

\* return res.status(404).json({ error: "Company not found" }) on no row
CompanyReply(rq, call, status, shape) ==
    IF call.threw THEN errorHandler(rq, call.err)
    ELSE IF call.rows = {}
         THEN Respond(rq, 404, Body("error-string", "Company not found", 0))
         ELSE Respond(rq, status, Body(shape, "", 0))

\* GET /companies
CompaniesGetAll(r) ==
    /\ Routed(r, "GET /companies")
    /\ \E p \in Picks, up \in BOOLEAN :
          /\ PoolPick(NoClient, p)
          /\ LET call == getAllCompanies(NoClient, p, up)
             IN Effect(r, call, Reply(InHandler(r), call, 200, "companies", ""))

\* GET /companies/:code, up to its second await
CompaniesGetOne(r) ==
    /\ Routed(r, "GET /companies/:code")
    /\ \E code \in CodeArgs, p \in Picks, up \in BOOLEAN :
          /\ PoolPick(NoClient, p)
          /\ LET call == getCompany(code, NoClient, p, up)
                 rq == [InHandler(r) EXCEPT !.code = code]
             IN Effect(r, call,
                       IF ~call.threw /\ call.rows # {}
                       THEN [rq EXCEPT !.pc = "route2"]
                       ELSE CompanyReply(rq, call, 200, "company"))

\* GET /companies/:code, from its second await
CompaniesGetOneInvoices(r) ==
    /\ req[r].pc = "route2"
    /\ \E p \in Picks, up \in BOOLEAN :
          /\ PoolPick(NoClient, p)
          /\ LET call == getAllCompanyInvoices(req[r].code, NoClient, p, up)
             IN Effect(r, call, Reply(req[r], call, 200, "company", ""))

\* POST /companies
CompaniesPost(r) ==
    /\ Routed(r, "POST /companies")
    /\ \E args \in CompanyArgs, up \in BOOLEAN :
          LET call == createCompany(args, NoClient, up)
              rq == [InHandler(r) EXCEPT !.code = Arg(args, "code", "")]
          IN Effect(r, call, Reply(rq, call, 201, "company", ""))

\* PUT /companies/:code
CompaniesPut(r) ==
    /\ Routed(r, "PUT /companies/:code")
    /\ \E code \in CodeArgs, args \in CompanyArgs, up \in BOOLEAN :
          LET call == updateCompany(code, args, NoClient, up)
              rq == [InHandler(r) EXCEPT !.code = code]
          IN Effect(r, call, CompanyReply(rq, call, 200, "company"))

\* DELETE /companies/:code
CompaniesDelete(r) ==
    /\ Routed(r, "DELETE /companies/:code")
    /\ \E code \in CodeArgs, up \in BOOLEAN :
          LET call == deleteCompany(code, NoClient, up)
              rq == [InHandler(r) EXCEPT !.code = code]
          IN Effect(r, call, CompanyReply(rq, call, 200, "deleted"))

\* No router matched: the 404 handler of app.js.
NotFound(r) ==
    /\ Routed(r, "other")
    /\ req' = [req EXCEPT ![r] = errorHandler(@, Err("Not Found", 404))]
    /\ UNCHANGED <<pool, companies, invoices, nextId, sent, api, apiSent, tz>>

\* ------------------------------------------------------------ specifications
\* Session time zones: what each connection's session has for its time zone
\* ("local" until a SET TIME ZONE 'UTC' ran on it), the pool.query calls of
\* "connect" handlers that wait for a connection, and the connections such a
\* call took and has its statement running on.
NoZones == [zone |-> [c \in Conns |-> "local"], pending |-> 0, running |-> {}]

\* The rows the tables hold when the application starts.
InitCompanies == {CompanyRow("c1", "Company1", "Description1")}
InitInvoices == {InvoiceRow(1, "c1", 100, FALSE, getCalendarDate(Now), NULL)}

Init ==
    /\ pool = [c \in Conns |-> FreshConn]
    /\ companies = InitCompanies
    /\ invoices = InitInvoices
    /\ nextId = 2
    /\ req = [r \in Reqs |-> NewReq]
    /\ sent = [r \in Reqs |-> <<>>]
    /\ api = [client |-> NoClient, calls |-> 0, threw |-> FALSE,
              last |-> [fn |-> "", id |-> 0, code |-> "", given |-> <<>>,
                        on |-> NoClient, rows |-> {}, ret |-> NULL,
                        err |-> NoErr],
              base |-> [companies |-> {}, invoices |-> {}]]
    /\ apiSent = <<>>
    /\ tz = NoZones

Next ==
    \/ \E r \in Reqs : Arrive(r)
    \/ \E r \in Reqs : PoolConnect(r)
    \/ \E r \in Reqs : BeginTransaction(r)
    \/ \E r \in Reqs : Abort(r)
    \/ \E r \in Reqs : OnFinish(r)
    \/ \E r \in Reqs : InvoicesGetAll(r)
    \/ \E r \in Reqs : InvoicesGetOne(r)
    \/ \E r \in Reqs : InvoicesPost(r)
    \/ \E r \in Reqs : InvoicesPut(r)
    \/ \E r \in Reqs : InvoicesDelete(r)
    \/ \E r \in Reqs : CompaniesGetAll(r)
    \/ \E r \in Reqs : CompaniesGetOne(r)
    \/ \E r \in Reqs : CompaniesGetOneInvoices(r)
    \/ \E r \in Reqs : CompaniesPost(r)
    \/ \E r \in Reqs : CompaniesPut(r)
    \/ \E r \in Reqs : CompaniesDelete(r)
    \/ \E r \in Reqs : NotFound(r)

Spec == Init /\ [][Next]_vars

\* The event loop runs every continuation that is ready: a pending
\* pool.connect or BEGIN settles, a routed request's handler runs, a written
\* response emits "finish".  Arrivals and aborts are the clients' choice.
Step(r) ==
    \/ PoolConnect(r)
    \/ BeginTransaction(r)
    \/ OnFinish(r)
    \/ InvoicesGetAll(r)
    \/ InvoicesGetOne(r)
    \/ InvoicesPost(r)
    \/ InvoicesPut(r)
    \/ InvoicesDelete(r)
    \/ CompaniesGetAll(r)
    \/ CompaniesGetOne(r)
    \/ CompaniesGetOneInvoices(r)
    \/ CompaniesPost(r)
    \/ CompaniesPut(r)
    \/ CompaniesDelete(r)
    \/ NotFound(r)

FairSpec == Spec /\ \A r \in Reqs : WF_vars(Step(r))

\* ------------------------------------------------------------ a caller of db.js
\* The caller holds the client beginTransactions returned and calls the
\* exported functions on it in any order, as tests/db.test.js does.

\* The functions of db.js that write.
WriteFns ==
    {"createCompany", "updateCompany", "deleteCompany", "createInvoice",
     "updateInvoice", "updateInvoiceAmt", "deleteInvoice",
     "updateInvoicePaidStatus"}

\* What the invoice arguments of the caller may be.
InvoiceArgs ==
    {[amt |-> 500], [amt |-> 500, paid |-> TRUE, paid_date |-> Now]}
PaidDateArgs == {NULL, Now}

\* The caller's last call: the function, the key it passed, the arguments it
\* gave beyond the key, the client it passed, and what came back.
Called(fn, id, code, given, client, call) ==
    [fn |-> fn, id |-> id, code |-> code, given |-> given, on |-> client,
     rows |-> call.rows, ret |-> call.ret, err |-> call.err]
NoCall ==
    [fn |-> "", id |-> 0, code |-> "", given |-> <<>>, on |-> NoClient,
     rows |-> {}, ret |-> NULL, err |-> NoErr]

\* The committed tables, which a transaction sees when it opens.
Tables == [companies |-> companies, invoices |-> invoices]

\* The state after a call of the direct caller.
ApiEffect(last, call) ==
    /\ pool' = IF call.on = NoClient THEN pool
               ELSE [pool EXCEPT ![call.on] = call.res.cn]
    /\ invoices' = call.res.inv
    /\ companies' = call.res.comp
    /\ nextId' = call.res.nid
    /\ apiSent' = apiSent \o call.sent
    /\ api' = [api EXCEPT !.calls = @ + 1, !.threw = call.threw, !.last = last]
    /\ UNCHANGED <<req, sent, tz>>

MayCall == api.calls < MaxCalls
HasClient == api.client # NoClient

\* client = await beginTransactions(): pool.connect(), then BEGIN on the
\* connection; the caller gets the client only when both resolved.
ApiBegin ==
    /\ MayCall
    /\ ~HasClient
    /\ \/ \E c \in Conns, up \in BOOLEAN :
            /\ Idle(c)
            /\ LET call == Ran(c, Begin, up, "client")
               IN /\ pool' = [pool EXCEPT ![c] = CheckedOut(call.res.cn)]
                  /\ apiSent' = apiSent \o call.sent
                  /\ api' = [client |-> IF call.threw THEN NoClient ELSE c,
                             calls |-> api.calls + 1, threw |-> call.threw,
                             last |-> Called("beginTransactions", 0, "", <<>>,
                                             NoClient, call),
                             base |-> IF call.threw THEN api.base ELSE Tables]
       \/ /\ api' = [api EXCEPT !.calls = @ + 1, !.threw = TRUE,
                                !.last = Called("beginTransactions", 0, "", <<>>,
                                                NoClient, Threw(BackendErr))]
          /\ UNCHANGED <<pool, apiSent>>
    /\ UNCHANGED <<companies, invoices, nextId, req, sent, tz>>

ApiCommit ==
    /\ MayCall /\ HasClient
    /\ \E up \in BOOLEAN :
          LET call == commitTransactions(api.client, up)
          IN ApiEffect(Called("commitTransactions", 0, "", <<>>, api.client, call),
                       call)

ApiRollback ==
    /\ MayCall /\ HasClient
    /\ \E up \in BOOLEAN :
          LET call == rollbackTransactions(api.client, up)
          IN ApiEffect(Called("rollbackTransactions", 0, "", <<>>, api.client, call),
                       call)

\* client.release(): throws when the client is in the pool already
ApiRelease ==
    /\ MayCall /\ HasClient
    /\ IF pool[api.client].state = "out"
       THEN /\ pool' = [pool EXCEPT ![api.client] = release(@)]
            /\ apiSent' = Append(apiSent, Released)
            /\ api' = [api EXCEPT !.calls = @ + 1, !.threw = FALSE,
                                  !.last = [NoCall EXCEPT !.fn = "release"]]
       ELSE /\ api' = [api EXCEPT !.calls = @ + 1, !.threw = TRUE,
                                  !.last = [NoCall EXCEPT !.fn = "release"]]
            /\ UNCHANGED <<pool, apiSent>>
    /\ UNCHANGED <<companies, invoices, nextId, req, sent, tz>>

ApiGetCompany ==
    /\ MayCall /\ HasClient
    /\ \E code \in CodeArgs, up \in BOOLEAN :
          LET call == getCompany(code, api.client, NoClient, up)
          IN ApiEffect(Called("getCompany", 0, code, <<>>, api.client, call), call)

ApiCreateCompany ==
    /\ MayCall /\ HasClient
    /\ \E args \in CompanyArgs, up \in BOOLEAN :
          LET call == createCompany(args, api.client, up)
          IN ApiEffect(Called("createCompany", 0, Arg(args, "code", ""),
                              args, api.client, call),
                       call)

ApiUpdateCompany ==
    /\ MayCall /\ HasClient
    /\ \E code \in CodeArgs, args \in CompanyArgs, up \in BOOLEAN :
          LET call == updateCompany(code, args, api.client, up)
          IN ApiEffect(Called("updateCompany", 0, code, args, api.client,
                              call),
                       call)

\* The caller deletes companies no invoice names: what the backend does to
\* the invoices of a deleted company is the schema's choice.
ApiDeleteCompany ==
    /\ MayCall /\ HasClient
    /\ \E code \in CodeArgs, up \in BOOLEAN :
          /\ \A x \in View(api.client) : x.comp_code # code
          /\ LET call == deleteCompany(code, api.client, up)
             IN ApiEffect(Called("deleteCompany", 0, code, <<>>, api.client, call),
                          call)

ApiGetInvoice ==
    /\ MayCall /\ HasClient
    /\ \E id \in IdArgs, up \in BOOLEAN :
          LET call == getInvoice(id, api.client, NoClient, up)
          IN ApiEffect(Called("getInvoice", id, "", <<>>, api.client, call), call)

ApiGetAllInvoices ==
    /\ MayCall /\ HasClient
    /\ \E up \in BOOLEAN :
          LET call == getAllInvoices(api.client, NoClient, up)
          IN ApiEffect(Called("getAllInvoices", 0, "", <<>>, api.client, call),
                       call)

ApiGetUnpaidInvoices ==
    /\ MayCall /\ HasClient
    /\ \E up \in BOOLEAN :
          LET call == getUnpaidInvoices(api.client, NoClient, up)
          IN ApiEffect(Called("getUnpaidInvoices", 0, "", <<>>, api.client, call),
                       call)

ApiGetPaidInvoices ==
    /\ MayCall /\ HasClient
    /\ \E up \in BOOLEAN :
          LET call == getPaidInvoices(api.client, NoClient, up)
          IN ApiEffect(Called("getPaidInvoices", 0, "", <<>>, api.client, call),
                       call)

ApiGetInvoiceCount ==
    /\ MayCall /\ HasClient
    /\ \E up \in BOOLEAN :
          LET call == getInvoiceCount(api.client, NoClient, up)
          IN ApiEffect(Called("getInvoiceCount", 0, "", <<>>, api.client, call),
                       call)

\* The caller names a company its client sees.
ApiCreateInvoice ==
    /\ MayCall /\ HasClient
    /\ nextId <= MaxId
    /\ \E comp_code \in Codes(CView(api.client)), args \in InvoiceArgs,
          up \in BOOLEAN :
          LET call == createInvoice([k \in DOMAIN args \cup {"comp_code"} |->
                                       IF k = "comp_code" THEN comp_code
                                       ELSE args[k]],
                                    api.client, up)
          IN ApiEffect(Called("createInvoice", 0, comp_code, args,
                              api.client, call),
                       call)

ApiUpdateInvoice ==
    /\ MayCall /\ HasClient
    /\ \E id \in IdArgs, fields \in FieldArgs, up \in BOOLEAN :
          /\ ~RowLocked(api.client, id)
          /\ LET call == updateInvoice(id, fields, api.client, up)
             IN ApiEffect(Called("updateInvoice", id, "", fields,
                                 api.client, call),
                          call)

ApiUpdateInvoiceAmt ==
    /\ MayCall /\ HasClient
    /\ \E id \in IdArgs, up \in BOOLEAN :
          /\ ~RowLocked(api.client, id)
          /\ LET call == updateInvoiceAmt(id, 300, api.client, up)
             IN ApiEffect(Called("updateInvoiceAmt", id, "", [amt |-> 300], api.client,
                                 call),
                          call)

ApiUpdateInvoicePaidStatus ==
    /\ MayCall /\ HasClient
    /\ \E id \in IdArgs, paid \in BOOLEAN, paidDate \in PaidDateArgs,
          up \in BOOLEAN :
          /\ ~RowLocked(api.client, id)
          /\ LET call == updateInvoicePaidStatus(id, paid, paidDate, api.client, up)
             IN ApiEffect(Called("updateInvoicePaidStatus", id, "",
                                 IF paidDate = NULL THEN [paid |-> paid]
                                 ELSE [paid |-> paid, paidDate |-> paidDate],
                                 api.client, call),
                          call)

ApiDeleteInvoice ==
    /\ MayCall /\ HasClient
    /\ \E id \in IdArgs, up \in BOOLEAN :
          /\ ~RowLocked(api.client, id)
          /\ LET call == deleteInvoice(id, api.client, up)
             IN ApiEffect(Called("deleteInvoice", id, "", <<>>, api.client, call),
                          call)

\* A write function called with its client argument left out (client = null).
WriteCall(fn, id, code, args, fields, client, up) ==
    CASE fn = "createCompany" -> createCompany(args, client, up)
      [] fn = "updateCompany" -> updateCompany(code, args, client, up)
      [] fn = "deleteCompany" -> deleteCompany(code, client, up)
      [] fn = "createInvoice" ->
            createInvoice([comp_code |-> code, amt |-> 500], client, up)
      [] fn = "updateInvoice" -> updateInvoice(id, fields, client, up)
      [] fn = "updateInvoiceAmt" -> updateInvoiceAmt(id, 300, client, up)
      [] fn = "deleteInvoice" -> deleteInvoice(id, client, up)
      [] fn = "updateInvoicePaidStatus" ->
            updateInvoicePaidStatus(id, TRUE, Now, client, up)

ApiWriteWithoutClient ==
    /\ MayCall
    /\ \E fn \in WriteFns, up \in BOOLEAN :
          \E id \in IF fn \in {"updateInvoice", "updateInvoiceAmt", "deleteInvoice",
                               "updateInvoicePaidStatus"}
                    THEN IdArgs ELSE {0},
             code \in IF fn \in {"updateCompany", "deleteCompany", "createInvoice"}
                      THEN CodeArgs ELSE {""},
             args \in IF fn \in {"createCompany", "updateCompany"}
                      THEN CompanyArgs ELSE {<<>>},
             fields \in IF fn = "updateInvoice" THEN FieldArgs ELSE {<<>>} :
             LET call == WriteCall(fn, id, code, args, fields, NoClient, up)
             IN ApiEffect(Called(fn, id, IF fn = "createCompany"
                                         THEN Arg(args, "code", "") ELSE code,
                                 <<>>, NoClient, call),
                          call)

ApiNext ==
    \/ ApiBegin
    \/ ApiCommit
    \/ ApiRollback
    \/ ApiRelease
    \/ ApiGetCompany
    \/ ApiCreateCompany
    \/ ApiUpdateCompany
    \/ ApiDeleteCompany
    \/ ApiGetInvoice
    \/ ApiGetAllInvoices
    \/ ApiGetUnpaidInvoices
    \/ ApiGetPaidInvoices
    \/ ApiGetInvoiceCount
    \/ ApiCreateInvoice
    \/ ApiUpdateInvoice
    \/ ApiUpdateInvoiceAmt
    \/ ApiUpdateInvoicePaidStatus
    \/ ApiDeleteInvoice
    \/ ApiWriteWithoutClient

ApiSpec == Init /\ [][ApiNext]_vars

\* ------------------------------------------------------------ connection creation
\* new Pool(...) holds no connection; pool.connect() takes one that is in the
\* pool, or creates one while fewer than the maximum exist, and the pool
\* emits "connect" for each one it created.  The handler db.js registers,
\* async () => { await pool.query("SET TIME ZONE 'UTC'") }, takes no argument:
\* its statement runs on the connection pool.query gets from the pool.
Absent(c) == pool[c].state = "absent"

ConnectInit ==
    /\ pool = [c \in Conns |-> [FreshConn EXCEPT !.state = "absent"]]
    /\ companies = InitCompanies
    /\ invoices = InitInvoices
    /\ nextId = 2
    /\ req = [r \in Reqs |-> NewReq]
    /\ sent = [r \in Reqs |-> <<>>]
    /\ api = [client |-> NoClient, calls |-> 0, threw |-> FALSE,
              last |-> NoCall, base |-> [companies |-> {}, invoices |-> {}]]
    /\ apiSent = <<>>
    /\ tz = NoZones

\* A GET /invoices reaches the application.
ConnectArrive(r) ==
    /\ req[r].pc = "new"
    /\ req' = [req EXCEPT ![r].pc = "connect", ![r].route = "GET /invoices"]
    /\ UNCHANGED <<pool, companies, invoices, nextId, sent, api, apiSent, tz>>

\* beginTransactions, first await, on the pool that creates connections.
LazyPoolConnect(r) ==
    /\ req[r].pc = "connect"
    /\ \E c \in Conns :
          /\ \/ Idle(c) /\ UNCHANGED tz
             \/ /\ Absent(c) /\ \A d \in Conns : ~Idle(d)
                /\ tz' = [tz EXCEPT !.pending = @ + 1]
          /\ pool' = [pool EXCEPT ![c] = CheckedOut(@)]
          /\ req' = [req EXCEPT ![r].pc = "begin", ![r].conn = c]
    /\ UNCHANGED <<companies, invoices, nextId, sent, api, apiSent>>

\* The pool.query of a "connect" handler gets its connection: one that is in
\* the pool, or one the pool creates for it, for which "connect" is emitted
\* in turn.
ConnectHandlerAcquire ==
    /\ tz.pending > 0
    /\ \E c \in Conns :
          /\ \/ /\ Idle(c)
                /\ tz' = [tz EXCEPT !.pending = @ - 1, !.running = @ \cup {c}]
             \/ /\ Absent(c) /\ \A d \in Conns : ~Idle(d)
                /\ tz' = [tz EXCEPT !.running = @ \cup {c}]
          /\ pool' = [pool EXCEPT ![c] = CheckedOut(@)]
    /\ UNCHANGED <<companies, invoices, nextId, req, sent, api, apiSent>>

\* SET TIME ZONE 'UTC' runs on the connection pool.query took, which
\* pool.query then releases.
ConnectHandlerSet ==
    /\ \E c \in tz.running :
          /\ tz' = [tz EXCEPT !.zone[c] = "UTC", !.running = @ \ {c}]
          /\ pool' = [pool EXCEPT ![c] = release(@)]
    /\ UNCHANGED <<companies, invoices, nextId, req, sent, api, apiSent>>

ConnectNext ==
    \/ \E r \in Reqs : ConnectArrive(r)
    \/ \E r \in Reqs : LazyPoolConnect(r)
    \/ ConnectHandlerAcquire
    \/ ConnectHandlerSet
    \/ \E r \in Reqs : BeginTransaction(r)
    \/ \E r \in Reqs : InvoicesGetAll(r)
    \/ \E r \in Reqs : OnFinish(r)

ConnectSpec == ConnectInit /\ [][ConnectNext]_vars

\* ------------------------------------------------------------ properties
Has(tr, stmt) == \E i \in DOMAIN tr : tr[i].stmt = stmt
Accepted(tr, stmt) == \E i \in DOMAIN tr : tr[i].stmt = stmt /\ tr[i].ok
Refused(tr, stmt) == \E i \in DOMAIN tr : tr[i].stmt = stmt /\ ~tr[i].ok
Count(tr, stmts) == Cardinality({i \in DOMAIN tr : tr[i].stmt \in stmts})

\* The middleware opened a transaction for r: BEGIN was accepted on the
\* connection it checked out.
Opened(r) == Accepted(sent[r], "BEGIN")
\* The response of r emitted "finish" and what listens to it ran.
Finished(r) == req[r].pc = "done"

\* C1: a request whose transaction the middleware opened and whose response
\* finished with a status below 400 has had COMMIT, and no ROLLBACK, issued
\* on its connection; and in the step in which that COMMIT is accepted,
\* every row the request wrote through the connection is in the committed
\* table and every row it deleted is out of it, which is what a scope opened
\* afterwards reads.
C1_CommitOnSuccess ==
    [][\A r \in Reqs :
         (Opened(r)' /\ Finished(r)' /\ req'[r].statusCode < 400) =>
            /\ Has(sent'[r], "COMMIT")
            /\ ~Has(sent'[r], "ROLLBACK")
            /\ (~Finished(r) /\ Accepted(sent'[r], "COMMIT")) =>
                  /\ pool[req[r].conn].ins \subseteq invoices'
                  /\ pool[req[r].conn].del \cap Ids(invoices') = {}
                  /\ pool[req[r].conn].cins \subseteq companies'
                  /\ pool[req[r].conn].cdel \cap Codes(companies') = {}
                  /\ pool'[req[r].conn].txn = "none"]_vars

\* A POST /invoices answered 201 whose COMMIT was accepted, the invoice it
\* created being in the committed table.
C1_Witness ==
    \E r \in Reqs :
        /\ Finished(r) /\ req[r].route = "POST /invoices"
        /\ req[r].statusCode = 201
        /\ Accepted(sent[r], "INSERT") /\ Accepted(sent[r], "COMMIT")
        /\ \E x \in invoices : x.amt = 500

\* C2: a request whose transaction the middleware opened and whose response
\* finished with a status of 400 or more (a PUT that found no row and
\* answered 404 among them) has had ROLLBACK, and no COMMIT, issued on its
\* connection, and the step that finalizes it leaves the committed tables as
\* they were: nothing written through the connection reaches a later scope.
C2_RollbackOnFailure ==
    [][\A r \in Reqs :
         (Opened(r)' /\ Finished(r)' /\ req'[r].statusCode >= 400) =>
            /\ Has(sent'[r], "ROLLBACK")
            /\ ~Has(sent'[r], "COMMIT")
            /\ ~Finished(r) =>
                  /\ invoices' = invoices
                  /\ companies' = companies
                  /\ Accepted(sent'[r], "ROLLBACK") =>
                        /\ pool'[req[r].conn].txn = "none"
                        /\ pool'[req[r].conn].ins = {}
                        /\ pool'[req[r].conn].del = {}]_vars

\* A PUT /invoices/:id answered 404 "Invoice not found" whose ROLLBACK was
\* accepted.
C2_Witness ==
    \E r \in Reqs :
        /\ Finished(r) /\ req[r].route = "PUT /invoices/:id"
        /\ req[r].statusCode = 404
        /\ Accepted(sent[r], "UPDATE") /\ Accepted(sent[r], "ROLLBACK")

\* Nothing is left to run for r: its listener ran, or the client aborted and
\* the response it was to get is written.
Settled(r) == Finished(r) \/ (req[r].pc = "responded" /\ req[r].aborted)

\* C3: every transaction the middleware opened goes through exactly one
\* terminal statement and its connection is released exactly once after it,
\* whatever the handler and the terminal statement did: stated of a request
\* whose response finished and whose listener ran.
C3_OneTerminalOneRelease ==
    \A r \in Reqs :
        (Opened(r) /\ Finished(r)) =>
            /\ Count(sent[r], {"COMMIT", "ROLLBACK"}) = 1
            /\ Count(sent[r], {"release"}) = 1
            /\ sent[r][Len(sent[r])].stmt = "release"

\* C4: when the ROLLBACK of the finalization fails, the connection is
\* released all the same.
C4_ReleasedAfterFailedRollback ==
    \A r \in Reqs :
        (Finished(r) /\ Refused(sent[r], "ROLLBACK")) =>
            /\ Has(sent[r], "release")
            /\ pool[req[r].conn].state = "idle"

\* C5: when the COMMIT of the finalization fails, the connection is released
\* all the same.
C5_ReleasedAfterFailedCommit ==
    \A r \in Reqs :
        (Finished(r) /\ Refused(sent[r], "COMMIT")) =>
            /\ Has(sent[r], "release")
            /\ pool[req[r].conn].state = "idle"

\* C6: a request the client aborted after its transaction was opened is
\* finalized with ROLLBACK and its connection released: stated of the
\* aborted request once its handler is over and nothing is left to run.
C6_AbortedIsFinalized ==
    \A r \in Reqs :
        (Opened(r) /\ req[r].aborted /\ Settled(r)) =>
            /\ Has(sent[r], "ROLLBACK")
            /\ Has(sent[r], "release")

\* C7: when a route handler faulted after the transaction was opened, the
\* transaction is rolled back, the connection is released and the client got
\* an error response under err.status or 500.
Faulted(r) == req[r].handled /\ req[r].err # NoErr
C7_FaultRolledBackAndReleased ==
    \A r \in Reqs :
        (Opened(r) /\ Faulted(r) /\ Finished(r)) =>
            /\ Accepted(sent[r], "ROLLBACK")
            /\ Has(sent[r], "release")
            /\ req[r].statusCode =
                 (IF Truthy(req[r].err.status) THEN req[r].err.status ELSE 500)
            /\ req[r].body.shape = "error"

\* C8: when beginTransactions failed (pool.connect or BEGIN), no route
\* handler runs for the request, the request ends in an error response, and
\* neither COMMIT nor ROLLBACK is issued for it.
OpenFailed(r) ==
    /\ req[r].pc \notin {"new", "connect", "begin"}
    /\ ~Opened(r)
C8_FailedOpenSkipsHandlerAndFinalization ==
    \A r \in Reqs :
        OpenFailed(r) =>
            /\ ~req[r].handled
            /\ req[r].pc \in {"responded", "done"}
            /\ req[r].statusCode >= 400
            /\ req[r].body.shape = "error"
            /\ ~Has(sent[r], "COMMIT")
            /\ ~Has(sent[r], "ROLLBACK")

\* A request whose BEGIN the backend refused, answered and finished.
C8_Witness ==
    \E r \in Reqs :
        /\ Finished(r) /\ Refused(sent[r], "BEGIN")
        /\ req[r].statusCode = 500

\* C9: once commitTransactions or rollbackTransactions has ended the
\* transaction of a client, a further call of either sends no statement.
C9_NoSecondTerminalStatement ==
    \A i, j \in DOMAIN apiSent :
        (i < j /\ apiSent[i].stmt \in {"COMMIT", "ROLLBACK"} /\ apiSent[i].ok)
            => apiSent[j].stmt \notin {"COMMIT", "ROLLBACK"}

\* C10: updateInvoice sends no statement for an empty field set: every
\* UPDATE it sent has a SET clause.
C10_NoUpdateWithoutFields ==
    \A i \in DOMAIN apiSent : apiSent[i].stmt = "UPDATE" => apiSent[i].cols # {}

\* The direct caller just made a call: the step is one of its calls.
JustCalled == api'.calls = api.calls + 1

KeyedInvoiceRoutes ==
    {"GET /invoices/:id", "PUT /invoices/:id", "DELETE /invoices/:id"}
FoundNoRow(r, stmts) ==
    \E i \in DOMAIN sent[r] :
        /\ sent[r][i].stmt \in stmts
        /\ sent[r][i].ok /\ ~sent[r][i].found

\* C12: on GET, PUT and DELETE /invoices/:id, when the keyed call of the
\* handler found no row (and so returned without throwing), the response is
\* 404 with body { error: { message: "Invoice not found", status: 404 } },
\* never a 2xx and never a 500.
C12_MissingInvoiceIs404 ==
    \A r \in Reqs :
        (/\ req[r].route \in KeyedInvoiceRoutes
         /\ req[r].handled
         /\ FoundNoRow(r, {"SELECT", "UPDATE", "DELETE"})) =>
            /\ req[r].pc \in {"responded", "done"}
            /\ req[r].statusCode = 404
            /\ req[r].body = Body("error", "Invoice not found", 404)
            /\ req[r].err = Err("Invoice not found", 404)

\* A DELETE /invoices/:id whose DELETE matched no row, answered and finished.
C12_Witness ==
    \E r \in Reqs :
        /\ Finished(r) /\ req[r].route = "DELETE /invoices/:id"
        /\ FoundNoRow(r, {"DELETE"})
        /\ req[r].statusCode = 404

\* The response of r is written.
Answered(r) == req[r].pc \in {"responded", "done"}
\* The backend accepted every statement request r sent.
NoneRefused(r) == \A i \in DOMAIN sent[r] : sent[r][i].ok
KeyedCompanyRoutes ==
    {"GET /companies/:code", "PUT /companies/:code", "DELETE /companies/:code"}

\* C13: every response with a status of 400 or more has the body
\* { error: { message, status } } with status the HTTP status; and GET, PUT
\* and DELETE /companies/:code for a code no company has answer 404 with
\* error.message "Company not found".
C13_ErrorBodyShape ==
    \A r \in Reqs :
        Answered(r) =>
            /\ req[r].statusCode >= 400 =>
                  /\ req[r].body.shape = "error"
                  /\ req[r].body.status = req[r].statusCode
            /\ (/\ req[r].route \in KeyedCompanyRoutes
                /\ req[r].handled
                /\ NoneRefused(r)
                /\ req[r].code \notin Codes(companies)) =>
                  /\ req[r].statusCode = 404
                  /\ req[r].body = Body("error", "Company not found", 404)

\* C14: POST /companies with a full body and a code no company has answers
\* 201 with { company } and the company is stored once the request is over;
\* PUT and DELETE /companies/:code on a company that is there answer 200 and
\* the change is applied.
C14_CompanyWritesApplied ==
    \A r \in Reqs :
        (Finished(r) /\ req[r].handled /\ NoneRefused(r)) =>
            /\ (/\ req[r].route = "POST /companies"
                /\ req[r].code # ""
                /\ req[r].code \notin Codes(InitCompanies)) =>
                  /\ req[r].statusCode = 201
                  /\ req[r].body.shape = "company"
                  /\ req[r].code \in Codes(companies)
            /\ (/\ req[r].route = "PUT /companies/:code"
                /\ req[r].code \in Codes(InitCompanies)) =>
                  /\ req[r].statusCode = 200
                  /\ req[r].body.shape = "company"
            /\ (/\ req[r].route = "DELETE /companies/:code"
                /\ req[r].code \in Codes(InitCompanies)) =>
                  /\ req[r].statusCode = 200
                  /\ req[r].code \notin Codes(companies)

\* The caller's last call ended a transaction that had been open since
\* beginTransactions: between the accepted BEGIN and what the last call sent,
\* the client saw data-access calls only.
Terminal == {"COMMIT", "ROLLBACK", "release"}
OpenSinceBegin ==
    /\ HasClient
    /\ \E b \in DOMAIN apiSent :
          /\ apiSent[b].stmt = "BEGIN" /\ apiSent[b].ok
          /\ b < Len(apiSent)
          /\ \A i \in DOMAIN apiSent :
                (b < i /\ i < Len(apiSent)) => apiSent[i].stmt \notin Terminal
Wrote(tr) ==
    \E i \in DOMAIN tr :
        /\ tr[i].stmt \in {"INSERT", "UPDATE", "DELETE", "INSERT_COMPANY",
                            "UPDATE_COMPANY", "DELETE_COMPANY"}
        /\ tr[i].ok /\ tr[i].found

Effective(tr, stmts) ==
    Cardinality({i \in DOMAIN tr : tr[i].stmt \in stmts /\ tr[i].ok /\ tr[i].found})

Returned(a, fns) == a.last.fn \in fns /\ a.last.on # NoClient /\ ~a.threw

\* C17: createInvoice(comp_code, amt), given neither paid nor paid_date and
\* naming a company its client sees, returns an invoice with that comp_code
\* and amt, paid = false and paid_date = null, which the client's transaction
\* then holds; and getInvoice on the returned id, called next on the same
\* client, returns that same invoice.
C17_CreatedInvoiceDefaults ==
    [][JustCalled =>
          /\ (/\ Returned(api', {"createInvoice"})
              /\ DOMAIN api'.last.given \cap {"paid", "paid_date"} = {}) =>
                /\ Cardinality(api'.last.rows) = 1
                /\ \A x \in api'.last.rows :
                      /\ x.comp_code = api'.last.code
                      /\ x.amt = 500
                      /\ x.paid = FALSE
                      /\ x.paid_date = NULL
                      /\ x \in View(api.client)'
          /\ (/\ Returned(api, {"createInvoice"})
              /\ DOMAIN api.last.given \cap {"paid", "paid_date"} = {}
              /\ Returned(api', {"getInvoice"})
              /\ api'.last.id \in Ids(api.last.rows)) =>
                api'.last.rows = api.last.rows]_vars

\* getInvoice returning the invoice a createInvoice(comp_code, 500) before it
\* created.
C17_Witness ==
    /\ Returned(api, {"getInvoice"})
    /\ Len(apiSent) >= 2
    /\ apiSent[Len(apiSent) - 1].stmt = "INSERT" /\ apiSent[Len(apiSent) - 1].ok
    /\ \E x \in api.last.rows :
          x.amt = 500 /\ x.paid = FALSE /\ x.paid_date = NULL /\ x.id = nextId - 1

\* The functions that return the row they wrote.
InvoiceMutations ==
    {"createInvoice", "updateInvoice", "updateInvoiceAmt", "updateInvoicePaidStatus"}
CompanyMutations == {"createCompany", "updateCompany"}

\* C20: a mutation that succeeded on a client and returned a row returned the
\* row as the client's transaction holds it after the statement; and the
\* keyed fetch of the same key (getInvoice by id, getCompany by code) called
\* next on the same client returns a row equal to it.
C20_MutationReturnsStoredRow ==
    [][JustCalled =>
          /\ Returned(api', InvoiceMutations) =>
                api'.last.rows \subseteq View(api.client)'
          /\ Returned(api', CompanyMutations) =>
                api'.last.rows \subseteq CView(api.client)'
          /\ (/\ Returned(api, InvoiceMutations)
              /\ Returned(api', {"getInvoice"})
              /\ api'.last.on = api.last.on
              /\ api'.last.id \in Ids(api.last.rows)) =>
                api'.last.rows = api.last.rows
          /\ (/\ Returned(api, CompanyMutations)
              /\ Returned(api', {"getCompany"})
              /\ api'.last.on = api.last.on
              /\ api'.last.code \in Codes(api.last.rows)) =>
                api'.last.rows = api.last.rows]_vars

\* getInvoice returning the invoice the updateInvoice before it changed.
C20_Witness ==
    /\ Returned(api, {"getInvoice"})
    /\ Len(apiSent) >= 2
    /\ apiSent[Len(apiSent) - 1].stmt = "UPDATE"
    /\ apiSent[Len(apiSent) - 1].ok /\ apiSent[Len(apiSent) - 1].found
    /\ apiSent[Len(apiSent) - 1].cols = {"amt"}
    /\ \E x \in api.last.rows : x.amt = 200 /\ x \notin invoices

\* Request r holds a connection: pool.connect() handed it one and r has not
\* released it.
Holding(r) == req[r].conn # NoClient /\ ~Has(sent[r], "release")

\* C18: two requests that hold a connection hold different ones, the client
\* attached to a request is the connection it checked out, and a connection a
\* request holds is out of the pool: it reaches another request only after
\* its holder released it.
C18_OneRequestPerConnection ==
    \A r \in Reqs :
        /\ req[r].dbClient \in {NoClient, req[r].conn}
        /\ Holding(r) =>
              /\ pool[req[r].conn].state = "out"
              /\ \A q \in Reqs \ {r} : Holding(q) => req[q].conn # req[r].conn

\* Two requests in their handlers at once, each with its own client.
C18_Witness ==
    \E r, q \in Reqs :
        /\ r # q
        /\ req[r].pc = "route" /\ req[q].pc = "route"
        /\ req[r].dbClient # NoClient /\ req[q].dbClient # NoClient
        /\ req[r].dbClient # req[q].dbClient

\* A statement of request r's handler on its client that the backend refused.
RefusedInHandler(r, i) ==
    /\ sent[r][i].via = "client"
    /\ sent[r][i].stmt \notin {"BEGIN", "COMMIT", "ROLLBACK", "release"}
    /\ ~sent[r][i].ok

\* C19: when a statement a data-access function sent on the request's client
\* failed, the handler got the backend's error as it was, and the function
\* sent nothing after the statement: until the listener of the middleware
\* runs, the failed statement is the last thing sent on the client, the
\* transaction is not ended and the client not released; what follows it
\* afterwards is the finalization of the middleware.
C19_FailedStatementLeftToMiddleware ==
    \A r \in Reqs :
        \A i \in DOMAIN sent[r] :
            RefusedInHandler(r, i) =>
                /\ req[r].err = BackendErr
                /\ \A j \in DOMAIN sent[r] :
                      j > i => /\ Finished(r)
                               /\ sent[r][j].stmt \in {"ROLLBACK", "release"}
                /\ ~Finished(r) =>
                      /\ pool[req[r].conn].txn # "none"
                      /\ pool[req[r].conn].state = "out"

\* A PUT /invoices/:id whose UPDATE the backend refused, answered and not
\* yet finalized: its transaction is still there.
C19_Witness ==
    \E r \in Reqs :
        /\ req[r].pc = "responded"
        /\ Refused(sent[r], "UPDATE")
        /\ req[r].err = BackendErr
        /\ pool[req[r].conn].txn = "aborted"

\* C21: a connection a request has run BEGIN on, and holds, has had its
\* session time zone set to UTC; nothing sets a zone on a connection while a
\* request holds it, so that is the zone its first statement ran under.
C21_UtcBeforeFirstStatement ==
    \A r \in Reqs :
        (Holding(r) /\ Has(sent[r], "BEGIN")) => tz.zone[req[r].conn] = "UTC"

\* The row x with the columns of set put to set's values.
Updated(x, set) == [k \in DOMAIN x |-> IF k \in DOMAIN set THEN set[k] ELSE x[k]]
\* The invoices with the id given, and the others.
WithId(rows, id) == {x \in rows : x.id = id}
Others(rows, id) == {x \in rows : x.id # id}

\* C22: an updateInvoice(id, fields) that returned leaves the invoice with
\* that id, when the client saw one, with the columns fields names at the
\* values given and its other columns as they were, and returns it; when the
\* client saw none it returns no row; and every other invoice and every
\* company is as it was.
C22_UpdateChangesNamedColumnsOnly ==
    [][(JustCalled /\ Returned(api', {"updateInvoice"})) =>
          LET before == View(api.client)
              after == View(api.client)'
              id == api'.last.id
              fields == api'.last.given
          IN /\ Others(after, id) = Others(before, id)
             /\ CView(api.client)' = CView(api.client)
             /\ WithId(after, id) = {Updated(x, fields) : x \in WithId(before, id)}
             /\ api'.last.rows = WithId(after, id)
             /\ WithId(before, id) = {} => after = before]_vars

\* updateInvoice(1, {paid: true}) returning the invoice with paid changed and
\* its amt as it was.
C22_Witness ==
    /\ Returned(api, {"updateInvoice"})
    /\ api.last.given = [paid |-> TRUE]
    /\ \E x \in api.last.rows :
          /\ x.paid = TRUE /\ x.amt = 100
          /\ \E y \in invoices : y.id = x.id /\ y.paid = FALSE /\ y.amt = 100

\* C23: an updateInvoicePaidStatus(id, paid, paidDate) that returned sent one
\* UPDATE naming paid and paid_date, and leaves the invoice with paid as
\* given and paid_date the calendar day of paidDate, or null when paidDate
\* was left out (whatever paid is), its comp_code, amt and add_date as they
\* were; every other invoice is as it was.
C23_PaidAndPaidDateTogether ==
    [][(JustCalled /\ Returned(api', {"updateInvoicePaidStatus"})) =>
          LET before == View(api.client)
              after == View(api.client)'
              id == api'.last.id
              args == api'.last.given
              paid_date == IF "paidDate" \in DOMAIN args
                           THEN getCalendarDate(args.paidDate) ELSE NULL
          IN /\ Len(apiSent') = Len(apiSent) + 1
             /\ apiSent'[Len(apiSent')].stmt = "UPDATE"
             /\ apiSent'[Len(apiSent')].cols = {"paid", "paid_date"}
             /\ Others(after, id) = Others(before, id)
             /\ WithId(after, id) =
                   {[x EXCEPT !.paid = args.paid, !.paid_date = paid_date]
                    : x \in WithId(before, id)}
             /\ api'.last.rows = WithId(after, id)]_vars

\* updateInvoicePaidStatus(1, true) with no paidDate, returning the invoice
\* paid and with paid_date null.
C23_Witness ==
    /\ Returned(api, {"updateInvoicePaidStatus"})
    /\ api.last.given = [paid |-> TRUE]
    /\ \E x \in api.last.rows : x.paid = TRUE /\ x.paid_date = NULL /\ x.amt = 100

PaidIs(rows, b) == {x \in rows : x.paid = b}

\* C25: getPaidInvoices returns the invoices its client sees with paid =
\* true, getUnpaidInvoices those with paid = false and getAllInvoices all of
\* them, so the first two are disjoint and together make the third; an
\* invoice createInvoice returned without paid given is in the unpaid result
\* called next, and one updateInvoicePaidStatus(id, true) returned is in the
\* paid result called next and not in the unpaid one.
C25_PaidAndUnpaidPartition ==
    [][JustCalled =>
          LET seen == View(api.client)'
          IN /\ Returned(api', {"getPaidInvoices"}) =>
                   api'.last.rows = PaidIs(seen, TRUE)
             /\ Returned(api', {"getUnpaidInvoices"}) =>
                   api'.last.rows = PaidIs(seen, FALSE)
             /\ Returned(api', {"getAllInvoices"}) => api'.last.rows = seen
             /\ Returned(api', {"getPaidInvoices", "getUnpaidInvoices",
                                "getAllInvoices"}) =>
                   /\ PaidIs(seen, TRUE) \cap PaidIs(seen, FALSE) = {}
                   /\ PaidIs(seen, TRUE) \cup PaidIs(seen, FALSE) = seen
             /\ (/\ Returned(api, {"createInvoice"})
                 /\ "paid" \notin DOMAIN api.last.given
                 /\ Returned(api', {"getUnpaidInvoices"})) =>
                   api.last.rows \subseteq api'.last.rows
             /\ (/\ Returned(api, {"updateInvoicePaidStatus"})
                 /\ api.last.given.paid
                 /\ Returned(api', {"getPaidInvoices"})) =>
                   api.last.rows \subseteq api'.last.rows
             /\ (/\ Returned(api, {"updateInvoicePaidStatus"})
                 /\ api.last.given.paid
                 /\ Returned(api', {"getUnpaidInvoices"})) =>
                   api.last.rows \cap api'.last.rows = {}]_vars

\* getPaidInvoices returning the invoice that the updateInvoicePaidStatus
\* before it marked paid and that is still unpaid outside the transaction.
C25_Witness ==
    /\ Returned(api, {"getPaidInvoices"})
    /\ Len(apiSent) >= 2
    /\ apiSent[Len(apiSent) - 1].stmt = "UPDATE"
    /\ apiSent[Len(apiSent) - 1].cols = {"paid", "paid_date"}
    /\ \E x \in api.last.rows : \E y \in invoices : y.id = x.id /\ ~y.paid

\* What a route handler sends, as against the middleware.
HandlerStmt(e) == e.stmt \notin {"BEGIN", "COMMIT", "ROLLBACK", "release"}

\* C26: every statement a route handler sent for a request went through the
\* request's client, inside the transaction the middleware opened, never
\* through pool.query on another connection.
C26_HandlerStatementsOnOwnConnection ==
    \A r \in Reqs : \A i \in DOMAIN sent[r] :
        HandlerStmt(sent[r][i]) => (sent[r][i].via = "client" /\ Opened(r))

\* C27: a request whose BEGIN failed has released the connection
\* pool.connect gave it, and the connection is not left checked out.
C27_ReleasedAfterFailedBegin ==
    \A r \in Reqs :
        Refused(sent[r], "BEGIN") =>
            /\ Has(sent[r], "release")
            /\ \/ pool[req[r].conn].state = "idle"
               \/ \E o \in Reqs \ {r} : Holding(o) /\ req[o].conn = req[r].conn

\* The response of w is written, with a status below 400, after w wrote
\* through its transaction, and the client is there to read it.
AnsweredWrite(w) ==
    /\ Answered(w) /\ ~req[w].aborted
    /\ req[w].statusCode < 400
    /\ Opened(w) /\ Wrote(sent[w])

\* C28: when a request arrives after the response of a write request was
\* written with a status below 400, the COMMIT of the write request has
\* completed.
C28_CommittedBeforeResponseSeen ==
    [][\A r, w \in Reqs :
         (req[r].pc = "new" /\ req'[r].pc = "connect" /\ AnsweredWrite(w)) =>
            Accepted(sent[w], "COMMIT")]_vars

\* C29: every request that arrived is answered in the end, and when every
\* request that arrived has ended, finished or aborted, every connection is
\* back in the pool.
Arrived(r) == req[r].pc # "new"
C29_NoConnectionLost ==
    /\ \A r \in Reqs : Arrived(r) ~> Answered(r)
    /\ []((\A r \in Reqs : Arrived(r) => Settled(r)) =>
             \A c \in Conns : Idle(c))

\* C30: of what request r sent through its client, every handler statement
\* comes after an accepted BEGIN and before any COMMIT, ROLLBACK or release,
\* and nothing comes after the release.
C30_StatementsInsideTransaction ==
    \A r \in Reqs : \A i \in DOMAIN sent[r] :
        /\ (sent[r][i].via = "client" /\ HandlerStmt(sent[r][i])) =>
               /\ \E b \in 1..(i - 1) :
                     sent[r][b].stmt = "BEGIN" /\ sent[r][b].ok
               /\ \A j \in 1..(i - 1) : sent[r][j].stmt \notin Terminal
        /\ sent[r][i].stmt = "release" => i = Len(sent[r])
        /\ sent[r][i].stmt = "BEGIN" => i = 1
        /\ sent[r][i].stmt \in {"COMMIT", "ROLLBACK"} =>
               \A j \in 1..(i - 1) : sent[r][j].stmt \notin Terminal

\* A finished PUT /invoices/:id that sent BEGIN, its UPDATE, COMMIT and the
\* release, in that order.
C30_Witness ==
    \E r \in Reqs :
        /\ Finished(r) /\ req[r].route = "PUT /invoices/:id"
        /\ Len(sent[r]) = 4
        /\ sent[r][1].stmt = "BEGIN" /\ sent[r][1].ok
        /\ sent[r][2].stmt = "UPDATE" /\ sent[r][2].ok
        /\ sent[r][3].stmt = "COMMIT" /\ sent[r][3].ok
        /\ sent[r][4].stmt = "release"

====
